---- MODULE Spec2Model ----
(***************************************************************************)
(* Model of job_analyzer.py: the run of main() as a state machine          *)
(* (validate -> load -> normalize -> render -> deliver -> clean up), with  *)
(* validate_arguments, process_job_data and the grouping, statistics and   *)
(* page assembly of generate_pdf_report computed as the code computes them.*)
(*                                                                         *)
(* Text arguments are sequences of one-character strings.  Timestamps have *)
(* minute resolution: [y, mo, d, min], min the minute of the day.          *)
(***************************************************************************)
EXTENDS Integers, Sequences, FiniteSets

\* ------------------------------------------------------------------ bounds
MaxRawRows == 2
MaxReportRows == 3

\* -------------------------------------------------------------- characters
Digits == {"0", "1", "2", "3", "4", "5", "6", "7", "8", "9"}

Letters ==
    {"a", "b", "c", "d", "e", "f", "g", "h", "i", "j", "k", "l", "m",
     "n", "o", "p", "q", "r", "s", "t", "u", "v", "w", "x", "y", "z",
     "A", "B", "C", "D", "E", "F", "G", "H", "I", "J", "K", "L", "M",
     "N", "O", "P", "Q", "R", "S", "T", "U", "V", "W", "X", "Y", "Z"}

DigitVal(c) ==
    CASE c = "0" -> 0 [] c = "1" -> 1 [] c = "2" -> 2 [] c = "3" -> 3
      [] c = "4" -> 4 [] c = "5" -> 5 [] c = "6" -> 6 [] c = "7" -> 7
      [] c = "8" -> 8 [] c = "9" -> 9 [] OTHER -> 0

\* s[p], or the empty string past the end of s
At(s, p) == IF p \in 1..Len(s) THEN s[p] ELSE ""

\* ------------------------------------------------- the email pattern (350)
\* ^[a-zA-Z0-9._%+-]+@[a-zA-Z0-9.-]+\.[a-zA-Z]{2,}$ under re.match; "$" also
\* matches just before a final newline.
LocalChars == Letters \cup Digits \cup {".", "_", "%", "+", "-"}
DomainChars == Letters \cup Digits \cup {".", "-"}

EmailMatches(s) ==
    \E n \in {Len(s)} \cup (IF Len(s) > 0 /\ s[Len(s)] = "\n" THEN {Len(s) - 1} ELSE {}) :
      \E i \in 2..n : \E j \in (i + 2)..n :
        /\ s[i] = "@"
        /\ s[j] = "."
        /\ \A k \in 1..(i - 1) : s[k] \in LocalChars
        /\ \A k \in (i + 1)..(j - 1) : s[k] \in DomainChars
        /\ n - j >= 2
        /\ \A k \in (j + 1)..n : s[k] \in Letters

\* ------------------------------------------------------------------- dates
NoDate == [y |-> 0, mo |-> 0, d |-> 0]

IsLeap(y) == (y % 4 = 0 /\ y % 100 # 0) \/ y % 400 = 0

DaysInMonth(y, mo) ==
    CASE mo \in {1, 3, 5, 7, 8, 10, 12} -> 31
      [] mo \in {4, 6, 9, 11} -> 30
      [] OTHER -> IF IsLeap(y) THEN 29 ELSE 28

RECURSIVE DaysBeforeMonth(_, _)
DaysBeforeMonth(y, mo) ==
    IF mo <= 1 THEN 0 ELSE DaysBeforeMonth(y, mo - 1) + DaysInMonth(y, mo - 1)

\* proleptic Gregorian ordinal of a date (date.toordinal)
DayNum(dt) ==
    365 * (dt.y - 1) + ((dt.y - 1) \div 4) - ((dt.y - 1) \div 100)
      + ((dt.y - 1) \div 400) + DaysBeforeMonth(dt.y, dt.mo) + dt.d

DateLess(a, b) == DayNum(a) < DayNum(b)
DateLeq(a, b) == DayNum(a) <= DayNum(b)

\* Alternatives of the strptime directives, in the order the regex tries
\* them; each is <<length, value>> when it matches s at p.
MonthAlts(s, p) ==
    LET c1 == At(s, p)
        c2 == At(s, p + 1)
    IN  (IF c1 = "1" /\ c2 \in {"0", "1", "2"} THEN <<(<<2, 10 + DigitVal(c2)>>)>> ELSE <<>>)
        \o (IF c1 = "0" /\ c2 \in Digits \ {"0"} THEN <<(<<2, DigitVal(c2)>>)>> ELSE <<>>)
        \o (IF c1 \in Digits \ {"0"} THEN <<(<<1, DigitVal(c1)>>)>> ELSE <<>>)

DayAlts(s, p) ==
    LET c1 == At(s, p)
        c2 == At(s, p + 1)
    IN  (IF c1 = "3" /\ c2 \in {"0", "1"} THEN <<(<<2, 30 + DigitVal(c2)>>)>> ELSE <<>>)
        \o (IF c1 \in {"1", "2"} /\ c2 \in Digits
              THEN <<(<<2, 10 * DigitVal(c1) + DigitVal(c2)>>)>> ELSE <<>>)
        \o (IF c1 = "0" /\ c2 \in Digits \ {"0"} THEN <<(<<2, DigitVal(c2)>>)>> ELSE <<>>)
        \o (IF c1 \in Digits \ {"0"} THEN <<(<<1, DigitVal(c1)>>)>> ELSE <<>>)
        \o (IF c1 = " " /\ c2 \in Digits \ {"0"} THEN <<(<<2, DigitVal(c2)>>)>> ELSE <<>>)

\* datetime.strptime(s, '%Y-%m-%d'): [ok, date]; ok = FALSE is ValueError
strptime(s) ==
    LET bad == [ok |-> FALSE, date |-> NoDate]
        yearOk == /\ \A k \in 1..4 : At(s, k) \in Digits
                  /\ At(s, 5) = "-"
        year == 1000 * DigitVal(At(s, 1)) + 100 * DigitVal(At(s, 2))
                  + 10 * DigitVal(At(s, 3)) + DigitVal(At(s, 4))
        ms == MonthAlts(s, 6)
        \* month alternatives after which "-" and a day alternative follow
        good == SelectSeq(ms, LAMBDA a : /\ At(s, 6 + a[1]) = "-"
                                         /\ DayAlts(s, 7 + a[1]) # <<>>)
    IN  IF ~yearOk \/ good = <<>> THEN bad
        ELSE LET m == good[1]
                 dd == DayAlts(s, 7 + m[1])[1]
                 end == 7 + m[1] + dd[1]
             IN  IF end # Len(s) + 1 THEN bad            \* unconverted data remains
                 ELSE IF year < 1 \/ dd[2] > DaysInMonth(year, m[2]) THEN bad
                 ELSE [ok |-> TRUE, date |-> [y |-> year, mo |-> m[2], d |-> dd[2]]]

\* -------------------------------------------------------------- timestamps
NaT == [y |-> 0, mo |-> 0, d |-> 0, min |-> 0]

TS(y, mo, d, min) == [y |-> y, mo |-> mo, d |-> d, min |-> min]

\* Series.dt.date of one value
DateOfTs(ts) == [y |-> ts.y, mo |-> ts.mo, d |-> ts.d]

MinutesOf(ts) == DayNum(DateOfTs(ts)) * 1440 + ts.min

\* A cell of a time column as the store returns it: a datetime, NULL, or
\* text that is not a timestamp.
DatetimeCell(ts) == [kind |-> "datetime", ts |-> ts]
NullCell == [kind |-> "null", ts |-> NaT]
TextCell == [kind |-> "text", ts |-> NaT]

\* A cell of the JOB_NAME column
NameCell(n) == [isnull |-> FALSE, v |-> n]
NullName == [isnull |-> TRUE, v |-> ""]

\* pd.to_datetime(column, errors='coerce') on one cell
to_datetime(cell) == IF cell.kind = "datetime" THEN cell.ts ELSE NaT

\* (END_TIME - START_TIME).dt.total_seconds() / 60, then fillna(0)
DurationOf(start, end) ==
    IF start = NaT \/ end = NaT THEN 0 ELSE MinutesOf(end) - MinutesOf(start)

\* the column operations of process_job_data on one row
CleanRow(raw) ==
    LET st == to_datetime(raw.START_TIME)
        en == to_datetime(raw.END_TIME)
    IN  [JOB_NAME |-> raw.JOB_NAME, START_TIME |-> st, END_TIME |-> en,
         DURATION |-> DurationOf(st, en),
         DATE |-> DateOfTs(st)]

\* variant: the end date itself is excluded
InRange_ExclusiveEnd(date, start, end) ==
    /\ date # NoDate
    /\ DateLeq(start, date)
    /\ DateLess(date, end)

\* (df["DATE"] >= start_date_obj) & (df["DATE"] <= end_date_obj); a NaT date
\* compares False
InRange(date, start, end) ==
    /\ date # NoDate
    /\ DateLeq(start, date)
    /\ DateLeq(date, end)

\* variant: the end time is not tested
RowComplete_NoEndCheck(row) ==
    /\ ~row.JOB_NAME.isnull
    /\ row.START_TIME # NaT

\* pd.notna(JOB_NAME) and pd.notna(START_TIME) and pd.notna(END_TIME)
RowComplete(row) ==
    /\ ~row.JOB_NAME.isnull
    /\ row.START_TIME # NaT
    /\ row.END_TIME # NaT

JobRecord(row) ==
    [jobName |-> row.JOB_NAME.v, startTime |-> row.START_TIME,
     endTime |-> row.END_TIME, duration |-> row.DURATION, date |-> row.DATE]

\* pd.to_datetime(start_date).date() of an argument string; it runs only on
\* strings validate_arguments accepted and yields the date strptime read
ArgDate(s) == strptime(s).date

process_job_data(frame, start_date, end_date) ==
    LET cleaned == [i \in 1..Len(frame) |-> CleanRow(frame[i])]
        df_filtered == SelectSeq(cleaned,
                         LAMBDA r : InRange(r.DATE, ArgDate(start_date), ArgDate(end_date)))
        rows == SelectSeq(df_filtered, RowComplete)
    IN  [i \in 1..Len(rows) |-> JobRecord(rows[i])]

\* ------------------------------------------------------- grouping and stats
\* variant: a later record of a known job replaces the group's list
AppendJob_Overwrite(groups, job) ==
    IF \E i \in 1..Len(groups) : groups[i].name = job.jobName
      THEN [i \in 1..Len(groups) |->
              IF groups[i].name = job.jobName
                THEN [groups[i] EXCEPT !.jobs = <<job>>]
                ELSE groups[i]]
      ELSE Append(groups, [name |-> job.jobName, jobs |-> <<job>>])

\* jobs_grouped[job['jobName']].append(job) on an insertion-ordered mapping,
\* kept as a sequence of [name, jobs] in key-insertion order
AppendJob(groups, job) ==
    IF \E i \in 1..Len(groups) : groups[i].name = job.jobName
      THEN [i \in 1..Len(groups) |->
              IF groups[i].name = job.jobName
                THEN [groups[i] EXCEPT !.jobs = Append(@, job)]
                ELSE groups[i]]
      ELSE Append(groups, [name |-> job.jobName, jobs |-> <<job>>])

RECURSIVE GroupFrom(_, _)
GroupFrom(groups, jobs) ==
    IF jobs = <<>> THEN groups ELSE GroupFrom(AppendJob(groups, Head(jobs)), Tail(jobs))

GroupJobs(jobs) == GroupFrom(<<>>, jobs)

RECURSIVE SumSeq(_)
SumSeq(s) == IF s = <<>> THEN 0 ELSE Head(s) + SumSeq(Tail(s))

MaxOf(s) == CHOOSE x \in {s[i] : i \in 1..Len(s)} : \A i \in 1..Len(s) : s[i] <= x
MinOf(s) == CHOOSE x \in {s[i] : i \in 1..Len(s)} : \A i \in 1..Len(s) : x <= s[i]

\* avg_duration = sum(durations) / len(durations) is kept as the exact
\* quotient [num, den], den > 0
StatsOf(group) ==
    LET durations == [i \in 1..Len(group.jobs) |-> group.jobs[i].duration]
    IN  [name |-> group.name,
         executions |-> Len(group.jobs),
         avg_duration |-> [num |-> SumSeq(durations), den |-> Len(durations)],
         max_duration |-> MaxOf(durations),
         min_duration |-> MinOf(durations),
         total_duration |-> SumSeq(durations)]

AvgLess(a, b) == a.num * b.den < b.num * a.den
AvgEq(a, b) == a.num * b.den = b.num * a.den

\* variant: x goes before the elements of equal key (an unstable sort)
InsertDesc_BeforeEqual(sorted, x) ==
    LET k == Cardinality({i \in 1..Len(sorted) :
                            AvgLess(x.avg_duration, sorted[i].avg_duration)})
    IN  SubSeq(sorted, 1, k) \o <<x>> \o SubSeq(sorted, k + 1, Len(sorted))

\* place x after every element whose key is not smaller than its own
InsertDesc(sorted, x) ==
    LET k == Cardinality({i \in 1..Len(sorted) :
                            ~AvgLess(sorted[i].avg_duration, x.avg_duration)})
    IN  SubSeq(sorted, 1, k) \o <<x>> \o SubSeq(sorted, k + 1, Len(sorted))

RECURSIVE SortFrom(_, _)
SortFrom(sorted, rest) ==
    IF rest = <<>> THEN sorted ELSE SortFrom(InsertDesc(sorted, Head(rest)), Tail(rest))

\* job_stats.sort(key=lambda x: x['avg_duration'], reverse=True)
SortByAvgDesc(stats) == SortFrom(<<>>, stats)

\* ------------------------------------------------------------------- pages
RECURSIVE SortDates(_)
SortDates(S) ==
    IF S = {} THEN <<>>
    ELSE LET m == CHOOSE x \in S : \A z \in S : DateLeq(x, z)
         IN  <<m>> \o SortDates(S \ {m})

\* daily_data[job['date']] += job['duration'], read back in sorted date order
DailySeries(jobs) ==
    LET dates == SortDates({jobs[i].date : i \in 1..Len(jobs)})
        onDay(dt) == SelectSeq(jobs, LAMBDA j : j.date = dt)
    IN  [dates |-> dates,
         durations |-> [k \in 1..Len(dates) |->
                          SumSeq([i \in 1..Len(onDay(dates[k])) |-> onDay(dates[k])[i].duration])]]

SummaryPage(groups, jobs, stats) ==
    [kind |-> "summary", job_name |-> "", total_jobs |-> Len(groups),
     total_executions |-> Len(jobs), job_stats |-> stats,
     dates |-> <<>>, durations |-> <<>>]

ChartPage(group) ==
    LET daily == DailySeries(group.jobs)
    IN  [kind |-> "chart", job_name |-> group.name, total_jobs |-> 0,
         total_executions |-> 0, job_stats |-> <<>>,
         dates |-> daily.dates, durations |-> daily.durations]

\* variant: the chart pages follow the sorted statistics list
ChartPages_StatsOrder(groups, stats) ==
    [i \in 1..Len(stats) |->
       ChartPage(groups[CHOOSE g \in 1..Len(groups) : groups[g].name = stats[i].name])]

\* for job_name, job_list in jobs_grouped.items(): one pdf.savefig per job
ChartPages(groups, stats) == [i \in 1..Len(groups) |-> ChartPage(groups[i])]

\* ------------------------------------------------------------------- state
VARIABLES
    args,            \* the parsed command line: email, start_date, end_date, save_pdf
    table,           \* rows of stg_scheduler_history in the store
    pc,              \* position of main()
    df,              \* rows returned by connect_to_database
    job_data,        \* result of process_job_data
    pdf_filename,    \* path chosen for the document ("" before it is chosen)
    files,           \* the file system: what each path holds
    jobs_grouped,    \* generate_pdf_report: groups in key-insertion order
    job_stats,       \* generate_pdf_report: the sorted statistics list
    document,        \* pages saved into the document, in order
    trace,           \* stages executed so far with their outcome
    exited,          \* the process has terminated
    exit_code,       \* its exit status once exited
    dbConnections,   \* connections opened to the store
    mailSessions,    \* SMTP sessions started
    unlinkAttempts   \* calls of os.unlink on the document

vars == <<args, table, pc, df, job_data, pdf_filename, files, jobs_grouped,
          job_stats, document, trace, exited, exit_code, dbConnections,
          mailSessions, unlinkAttempts>>

TmpPath == "job_analysis_tmp.pdf"
SavePath == "report.pdf"
Paths == {TmpPath, SavePath}

\* --save-pdf: absent (None) or a string
NoSavePdf == [given |-> FALSE, path |-> ""]
SavePdf(p) == [given |-> TRUE, path |-> p]

\* truth value of args.save_pdf
Truthy(save_pdf) == save_pdf.given /\ save_pdf.path # ""

\* ------------------------------------------------------------------ inputs
Emails ==
    {<<"a", "@", "b", ".", "c", "o">>,
     <<"a", "@", "b", ".", "c">>,
     <<"a", "b", ".", "c", "o">>,
     <<"a", "@", "b", ".", "c", "o", "\n">>}

StartDates ==
    {<<"2", "0", "2", "5", "-", "0", "5", "-", "0", "1">>,
     <<"2", "0", "2", "5", "-", "5", "-", "1">>,
     <<"2", "0", "2", "5", "-", "0", "5", "-", "0", "3">>,
     <<"2", "0", "2", "5", "/", "0", "5", "/", "0", "1">>,
     <<"2", "0", "2", "5", "-", "0", "2", "-", "3", "0">>}

EndDates ==
    {<<"2", "0", "2", "5", "-", "0", "5", "-", "0", "3">>,
     <<"2", "0", "2", "5", "-", "5", "-", "3">>,
     <<"2", "0", "2", "5", "-", "0", "5", "-", "0", "1">>,
     <<"0", "5", "-", "0", "3", "-", "2", "0", "2", "5">>,
     <<"2", "0", "2", "5", "-", "0", "5", "-", "0", "3", " ">>}

RangeStart == <<"2", "0", "2", "5", "-", "0", "5", "-", "0", "1">>
RangeEnd == <<"2", "0", "2", "5", "-", "0", "5", "-", "0", "3">>
GoodEmail == <<"a", "@", "b", ".", "c", "o">>

RawRow(n, s, e) == [JOB_NAME |-> n, START_TIME |-> s, END_TIME |-> e]

\* rows that exercise cleaning and filtering, for the range 2025-05-01..03
RawStarts ==
    {TextCell, DatetimeCell(TS(2025, 4, 30, 1430)), DatetimeCell(TS(2025, 5, 1, 0)),
     DatetimeCell(TS(2025, 5, 3, 1430))}

RawEnds ==
    {NullCell, TextCell, DatetimeCell(TS(2025, 5, 1, 0)),
     DatetimeCell(TS(2025, 5, 3, 1435)), DatetimeCell(TS(2025, 5, 4, 10))}

RawRows == {RawRow(n, s, e) : n \in {NameCell("A"), NullName}, s \in RawStarts, e \in RawEnds}

\* complete rows inside the range, for grouping and ordering
ReportRows ==
    {RawRow(NameCell(n), DatetimeCell(TS(2025, 5, d, 600)), DatetimeCell(TS(2025, 5, d, 600 + m))) :
        n \in {"A", "B", "C"}, d \in {1, 2}, m \in {10, 20}}

SeqsUpTo(S, n) == UNION {[1..k -> S] : k \in 0..n}

SmallTables ==
    {<<>>,
     <<RawRow(NameCell("A"), DatetimeCell(TS(2025, 5, 2, 600)), DatetimeCell(TS(2025, 5, 2, 630)))>>,
     <<RawRow(NameCell("A"), DatetimeCell(TS(2025, 6, 2, 600)), DatetimeCell(TS(2025, 6, 2, 630)))>>}

InitRun ==
    /\ pc = "start"
    /\ df = <<>>
    /\ job_data = <<>>
    /\ pdf_filename = ""
    /\ files = [p \in Paths |-> "absent"]
    /\ jobs_grouped = <<>>
    /\ job_stats = <<>>
    /\ document = <<>>
    /\ trace = <<>>
    /\ exited = FALSE
    /\ exit_code = 0
    /\ dbConnections = 0
    /\ mailSessions = 0
    /\ unlinkAttempts = 0

\* command lines of every kind over a small table
InitArgs ==
    /\ args \in [email : Emails, start_date : StartDates, end_date : EndDates,
                 save_pdf : {NoSavePdf, SavePdf(""), SavePdf(SavePath)}]
    /\ table \in SmallTables

\* a valid command line over tables that exercise cleaning and filtering
InitRaw ==
    /\ args \in [email : {GoodEmail}, start_date : {RangeStart}, end_date : {RangeEnd},
                 save_pdf : {NoSavePdf}]
    /\ table \in SeqsUpTo(RawRows, MaxRawRows)

\* a valid command line over tables that exercise grouping and ordering
InitReport ==
    /\ args \in [email : {GoodEmail}, start_date : {RangeStart}, end_date : {RangeEnd},
                 save_pdf : {NoSavePdf, SavePdf(SavePath)}]
    /\ table \in SeqsUpTo(ReportRows, MaxReportRows)

Init == InitRun /\ (InitArgs \/ InitRaw \/ InitReport)

\* ----------------------------------------------------------------- actions
\* sys.exit(1), or an exception that leaves main(): the process ends with
\* status 1
Exit1 ==
    /\ pc' = "failed"
    /\ exited' = TRUE
    /\ exit_code' = 1

Stage(name, ok) == trace' = Append(trace, [stage |-> name, ok |-> ok])

\* validate_arguments: TRUE when it returns, FALSE when it exits
ArgumentsValid(a) ==
    LET start_date == strptime(a.start_date)
        end_date == strptime(a.end_date)
    IN  /\ EmailMatches(a.email)
        /\ start_date.ok
        /\ end_date.ok
        /\ ~DateLeq(end_date.date, start_date.date)

ValidateArguments ==
    /\ pc = "start"
    /\ IF ArgumentsValid(args)
         THEN /\ pc' = "validated"
              /\ Stage("validate", TRUE)
              /\ UNCHANGED <<exited, exit_code>>
         ELSE /\ Exit1
              /\ Stage("validate", FALSE)
    /\ UNCHANGED <<args, table, df, job_data, pdf_filename, files, jobs_grouped,
                   job_stats, document, dbConnections, mailSessions, unlinkAttempts>>

\* SELECT ... WHERE START_TIME IS NOT NULL AND END_TIME IS NOT NULL
QueryResult(rows) ==
    SelectSeq(rows, LAMBDA r : r.START_TIME.kind # "null" /\ r.END_TIME.kind # "null")

\* variant: a failed connection is reported but the run goes on without rows
ConnectToDatabase_NoExit ==
    /\ pc = "validated"
    /\ dbConnections' = dbConnections + 1
    /\ \E ok \in BOOLEAN :
         /\ df' = IF ok THEN QueryResult(table) ELSE <<>>
         /\ pc' = "loaded"
         /\ Stage("load", ok)
         /\ UNCHANGED <<exited, exit_code>>
    /\ UNCHANGED <<args, table, job_data, pdf_filename, files, jobs_grouped,
                   job_stats, document, mailSessions, unlinkAttempts>>

ConnectToDatabase ==
    /\ pc = "validated"
    /\ dbConnections' = dbConnections + 1
    /\ \E ok \in BOOLEAN :
         IF ok
           THEN /\ df' = QueryResult(table)
                /\ pc' = "loaded"
                /\ Stage("load", TRUE)
                /\ UNCHANGED <<exited, exit_code>>
           ELSE /\ Exit1
                /\ Stage("load", FALSE)
                /\ UNCHANGED df
    /\ UNCHANGED <<args, table, job_data, pdf_filename, files, jobs_grouped,
                   job_stats, document, mailSessions, unlinkAttempts>>

ProcessJobData ==
    /\ pc = "loaded"
    /\ job_data' = process_job_data(df, args.start_date, args.end_date)
    /\ pc' = "normalized"
    /\ Stage("normalize", TRUE)
    /\ UNCHANGED <<args, table, df, pdf_filename, files, jobs_grouped, job_stats,
                   document, exited, exit_code, dbConnections, mailSessions,
                   unlinkAttempts>>

\* variant: the empty check is missing
ChooseFile_NoEmptyCheck ==
    /\ pc = "normalized"
    /\ pc' = "ready"
    /\ IF Truthy(args.save_pdf)
         THEN /\ pdf_filename' = args.save_pdf.path
              /\ UNCHANGED files
         ELSE /\ pdf_filename' = TmpPath
              /\ files' = [files EXCEPT ![TmpPath] = "empty"]
    /\ UNCHANGED <<args, table, df, job_data, jobs_grouped, job_stats, document,
                   trace, exited, exit_code, dbConnections, mailSessions,
                   unlinkAttempts>>

\* main, between process_job_data and generate_pdf_report: the empty check
\* and the choice of the file name (a temporary file is created empty)
ChooseFile ==
    /\ pc = "normalized"
    /\ IF job_data = <<>>
         THEN /\ Exit1
              /\ UNCHANGED <<pdf_filename, files>>
         ELSE /\ pc' = "ready"
              /\ UNCHANGED <<exited, exit_code>>
              /\ IF Truthy(args.save_pdf)
                   THEN /\ pdf_filename' = args.save_pdf.path
                        /\ UNCHANGED files
                   ELSE /\ pdf_filename' = TmpPath
                        /\ files' = [files EXCEPT ![TmpPath] = "empty"]
    /\ UNCHANGED <<args, table, df, job_data, jobs_grouped, job_stats, document,
                   trace, dbConnections, mailSessions, unlinkAttempts>>

\* generate_pdf_report; it catches nothing, so an error while opening or
\* writing the file leaves main() as an exception
GeneratePdfReport ==
    /\ pc = "ready"
    /\ \E outcome \in {"ok", "open_error", "write_error"} :
         LET groups == GroupJobs(job_data)
             stats == SortByAvgDesc([i \in 1..Len(groups) |-> StatsOf(groups[i])])
         IN  IF outcome = "ok"
               THEN /\ jobs_grouped' = groups
                    /\ job_stats' = stats
                    /\ document' = <<SummaryPage(groups, job_data, stats)>>
                                      \o ChartPages(groups, stats)
                    /\ files' = [files EXCEPT ![pdf_filename] = "pdf"]
                    /\ pc' = "rendered"
                    /\ Stage("render", TRUE)
                    /\ UNCHANGED <<exited, exit_code>>
               ELSE /\ Exit1
                    /\ Stage("render", FALSE)
                    /\ files' = IF outcome = "write_error"
                                  THEN [files EXCEPT ![pdf_filename] = "partial"]
                                  ELSE files
                    /\ jobs_grouped' = groups
                    /\ UNCHANGED <<job_stats, document>>
    /\ UNCHANGED <<args, table, df, job_data, pdf_filename, dbConnections,
                   mailSessions, unlinkAttempts>>

\* send_email_with_pdf: every exception (reading the attachment, TLS, login,
\* transmission) is caught and ends the process with status 1
SendEmailWithPdf ==
    /\ pc = "rendered"
    /\ \E outcome \in {"sent", "read_error", "smtp_error"} :
         /\ mailSessions' = IF outcome = "read_error" THEN mailSessions ELSE mailSessions + 1
         /\ IF outcome = "sent"
              THEN /\ pc' = "delivered"
                   /\ Stage("deliver", TRUE)
                   /\ UNCHANGED <<exited, exit_code>>
              ELSE /\ Exit1
                   /\ Stage("deliver", FALSE)
    /\ UNCHANGED <<args, table, df, job_data, pdf_filename, files, jobs_grouped,
                   job_stats, document, dbConnections, unlinkAttempts>>

\* variant: the document is removed whether or not a save path was given
CleanUp_AlwaysUnlink ==
    /\ pc = "delivered"
    /\ unlinkAttempts' = unlinkAttempts + 1
    /\ \E removed \in BOOLEAN :
         files' = IF removed THEN [files EXCEPT ![pdf_filename] = "absent"] ELSE files
    /\ pc' = "done"
    /\ exited' = TRUE
    /\ exit_code' = 0
    /\ UNCHANGED <<args, table, df, job_data, pdf_filename, jobs_grouped, job_stats,
                   document, trace, dbConnections, mailSessions>>

\* main, after send_email_with_pdf: remove the temporary file (errors
\* swallowed) or report the saved path, then return
CleanUp ==
    /\ pc = "delivered"
    /\ IF ~Truthy(args.save_pdf)
         THEN /\ unlinkAttempts' = unlinkAttempts + 1
              /\ \E removed \in BOOLEAN :
                   files' = IF removed THEN [files EXCEPT ![pdf_filename] = "absent"]
                            ELSE files
         ELSE UNCHANGED <<unlinkAttempts, files>>
    /\ pc' = "done"
    /\ exited' = TRUE
    /\ exit_code' = 0
    /\ UNCHANGED <<args, table, df, job_data, pdf_filename, jobs_grouped, job_stats,
                   document, trace, dbConnections, mailSessions>>

Next ==
    \/ ValidateArguments
    \/ ConnectToDatabase
    \/ ProcessJobData
    \/ ChooseFile
    \/ GeneratePdfReport
    \/ SendEmailWithPdf
    \/ CleanUp

Spec == Init /\ [][Next]_vars

\* ------------------------------------------------------------- properties
StageOrder == <<"validate", "load", "normalize", "render", "deliver">>

Ran(k) == Len(trace) >= k
Succeeded(k) == Len(trace) >= k /\ trace[k].ok

NoFileTouched == \A p \in Paths : files[p] = "absent"

\* first position of a job name in the normalized records
FirstIndex(n) ==
    CHOOSE i \in 1..Len(job_data) :
      /\ job_data[i].jobName = n
      /\ \A k \in 1..(i - 1) : job_data[k].jobName # n

JobNames == {job_data[i].jobName : i \in 1..Len(job_data)}

\* C1: the stages run in the order validate, load, normalize, render,
\* deliver, each at most once; a failed stage is the last one executed and
\* leaves the process terminated with a non-zero status; a mail session
\* exists only after the four earlier stages succeeded.
C1_StagesInOrder ==
    /\ Len(trace) <= Len(StageOrder)
    /\ \A i \in 1..Len(trace) : trace[i].stage = StageOrder[i]
    /\ \A i \in 1..Len(trace) :
         ~trace[i].ok => /\ i = Len(trace)
                         /\ pc = "failed"
                         /\ exited
                         /\ exit_code # 0
    /\ pc = "failed" => exited /\ exit_code # 0
    /\ (pc = "failed" /\ \A i \in 1..Len(trace) : trace[i].ok) => Len(trace) = 3
    /\ dbConnections <= 1
    /\ mailSessions <= 1
    /\ mailSessions > 0 => Len(trace) = 5 /\ \A i \in 1..4 : trace[i].ok
    /\ dbConnections > 0 => Succeeded(1)

C1_Witness ==
    /\ pc = "done"
    /\ mailSessions = 1
    /\ Len(trace) = 5

\* the literal format YYYY-MM-DD: four digits, two digits, two digits
IsYYYYMMDD(s) ==
    /\ Len(s) = 10
    /\ s[5] = "-"
    /\ s[8] = "-"
    /\ \A k \in {1, 2, 3, 4, 6, 7, 9, 10} : s[k] \in Digits

TextDate(s) ==
    [y |-> 1000 * DigitVal(s[1]) + 100 * DigitVal(s[2]) + 10 * DigitVal(s[3]) + DigitVal(s[4]),
     mo |-> 10 * DigitVal(s[6]) + DigitVal(s[7]),
     d |-> 10 * DigitVal(s[9]) + DigitVal(s[10])]

TextDateLess(a, b) ==
    \/ a.y < b.y
    \/ a.y = b.y /\ a.mo < b.mo
    \/ a.y = b.y /\ a.mo = b.mo /\ a.d < b.d

ArgumentsRejectable(a) ==
    \/ ~EmailMatches(a.email)
    \/ ~IsYYYYMMDD(a.start_date)
    \/ ~IsYYYYMMDD(a.end_date)
    \/ ~TextDateLess(TextDate(a.start_date), TextDate(a.end_date))

\* C2: when the email does not match the pattern, or a date string is not
\* YYYY-MM-DD, or the start date does not strictly precede the end date,
\* validation ends the process with a non-zero status before the store, the
\* file system or the mail relay is touched.
C2_InvalidArgumentsTerminate ==
    (ArgumentsRejectable(args) /\ pc # "start") =>
        /\ pc = "failed"
        /\ exited
        /\ exit_code # 0
        /\ Len(trace) = 1
        /\ dbConnections = 0
        /\ mailSessions = 0
        /\ NoFileTouched

\* C3: when process_job_data returns no record the run ends with a non-zero
\* status without rendering: no file is created at either path, no page is
\* produced and no mail session is started.
C3_EmptyResultStops ==
    (Succeeded(3) /\ job_data = <<>>) =>
        /\ pc \in {"normalized", "failed"}
        /\ pc = "failed" => exited /\ exit_code # 0
        /\ Len(trace) = 3
        /\ NoFileTouched
        /\ pdf_filename = ""
        /\ document = <<>>
        /\ mailSessions = 0

C3_Witness ==
    /\ pc = "failed"
    /\ Succeeded(3)
    /\ job_data = <<>>
    /\ df # <<>>
    /\ \A i \in 1..Len(df) : df[i].START_TIME.kind = "datetime"

RawComplete(raw) ==
    /\ ~raw.JOB_NAME.isnull
    /\ raw.START_TIME.kind = "datetime"
    /\ raw.END_TIME.kind = "datetime"

\* C4: every normalized record carries the calendar date of its start time
\* and that date lies in [start date, end date]; every complete row returned
\* by the store whose start falls on the start date or on the end date is
\* in the output.
C4_DateRangeInclusive ==
    Succeeded(3) =>
        LET lo == strptime(args.start_date).date
            hi == strptime(args.end_date).date
        IN  /\ \A i \in 1..Len(job_data) :
                 /\ job_data[i].date = DateOfTs(job_data[i].startTime)
                 /\ DayNum(lo) <= DayNum(job_data[i].date)
                 /\ DayNum(job_data[i].date) <= DayNum(hi)
            /\ \A i \in 1..Len(df) :
                 (RawComplete(df[i]) /\ DateOfTs(df[i].START_TIME.ts) \in {lo, hi}) =>
                     \E j \in 1..Len(job_data) :
                       /\ job_data[j].jobName = df[i].JOB_NAME.v
                       /\ job_data[j].startTime = df[i].START_TIME.ts
                       /\ job_data[j].endTime = df[i].END_TIME.ts

C4_Witness ==
    /\ Succeeded(3)
    /\ \E i \in 1..Len(job_data) :
         /\ job_data[i].date = strptime(args.end_date).date
         /\ DateOfTs(job_data[i].endTime) # job_data[i].date
    /\ \E i \in 1..Len(job_data) : job_data[i].date = strptime(args.start_date).date

\* C5: every normalized record has a duration of at least zero minutes,
\* also when its end time is earlier than its start time.
C5_DurationNonNegative ==
    \A i \in 1..Len(job_data) : job_data[i].duration >= 0

\* C6: the job groups partition the normalized records: group names are
\* distinct, each group holds exactly the records of its name, in order,
\* every record's name has a group, and the execution counts add up to the
\* total shown on the summary page.
C6_GroupingIsPartition ==
    Succeeded(4) =>
        /\ \A g, h \in 1..Len(jobs_grouped) :
             jobs_grouped[g].name = jobs_grouped[h].name => g = h
        /\ \A g \in 1..Len(jobs_grouped) :
             /\ jobs_grouped[g].jobs # <<>>
             /\ jobs_grouped[g].jobs =
                  SelectSeq(job_data, LAMBDA r : r.jobName = jobs_grouped[g].name)
        /\ \A i \in 1..Len(job_data) :
             \E g \in 1..Len(jobs_grouped) : jobs_grouped[g].name = job_data[i].jobName
        /\ SumSeq([k \in 1..Len(job_stats) |-> job_stats[k].executions])
             = document[1].total_executions
        /\ document[1].total_executions = Len(job_data)
        /\ document[1].total_jobs = Cardinality(JobNames)

C6_Witness ==
    /\ Succeeded(4)
    /\ Len(jobs_grouped) = 2
    /\ Len(job_data) = 3
    /\ job_data[1].jobName = job_data[3].jobName
    /\ job_data[1].jobName # job_data[2].jobName

\* C7: the job list of the summary page is in non-increasing order of
\* average duration, and jobs of equal average keep the order of their
\* first appearance in the normalized records.
C7_SummaryStableDescending ==
    Succeeded(4) =>
        /\ document[1].job_stats = job_stats
        /\ {job_stats[k].name : k \in 1..Len(job_stats)} = JobNames
        /\ Len(job_stats) = Cardinality(JobNames)
        /\ \A i, j \in 1..Len(job_stats) :
             i < j =>
               /\ job_stats[j].avg_duration.num * job_stats[i].avg_duration.den
                    <= job_stats[i].avg_duration.num * job_stats[j].avg_duration.den
               /\ (job_stats[j].avg_duration.num * job_stats[i].avg_duration.den
                    = job_stats[i].avg_duration.num * job_stats[j].avg_duration.den)
                  => FirstIndex(job_stats[i].name) < FirstIndex(job_stats[j].name)

\* jobs A (average 10), B (20), C (20) first seen as A, B, C are listed B, C, A
C7_Witness ==
    /\ Succeeded(4)
    /\ Len(job_data) = 3
    /\ [i \in 1..3 |-> job_data[i].jobName] = <<"A", "B", "C">>
    /\ [i \in 1..3 |-> job_data[i].duration] = <<10, 20, 20>>
    /\ Len(job_stats) = 3
    /\ [i \in 1..3 |-> job_stats[i].name] = <<"B", "C", "A">>

\* C8: the document is one summary page followed by one chart page per
\* distinct job name, the chart pages in the order in which the names first
\* appear in the normalized records.
C8_ChartPagesFirstSeenOrder ==
    Succeeded(4) =>
        /\ Len(document) = 1 + Cardinality(JobNames)
        /\ document[1].kind = "summary"
        /\ \A k \in 2..Len(document) :
             /\ document[k].kind = "chart"
             /\ document[k].job_name \in JobNames
        /\ \A k, l \in 2..Len(document) :
             k < l => FirstIndex(document[k].job_name) < FirstIndex(document[l].job_name)

\* the summary list and the chart pages are in different orders
C8_Witness ==
    /\ Succeeded(4)
    /\ Len(document) = 4
    /\ document[1].job_stats[1].name # document[2].job_name
    /\ document[1].job_stats[3].name = document[2].job_name

\* C9: os.unlink is attempted exactly in a finished run without a save
\* path, after the email was sent; the run then ends with status 0 whether
\* or not the removal worked; with a save path the document stays at that
\* path; a failed delivery ends the run non-zero with no removal attempt and
\* the document still in place.
C9_FileLifecycle ==
    /\ unlinkAttempts = (IF pc = "done" /\ ~Truthy(args.save_pdf) THEN 1 ELSE 0)
    /\ pc = "done" => exited /\ exit_code = 0 /\ Succeeded(5)
    /\ (pc = "done" /\ ~Truthy(args.save_pdf)) => files[pdf_filename] \in {"absent", "pdf"}
    /\ (Truthy(args.save_pdf) /\ Succeeded(4)) =>
          /\ pdf_filename = args.save_pdf.path
          /\ files[args.save_pdf.path] = "pdf"
    /\ (Ran(5) /\ ~trace[5].ok) =>
          /\ pc = "failed"
          /\ exited
          /\ exit_code # 0
          /\ unlinkAttempts = 0
          /\ files[pdf_filename] = "pdf"

\* the removal failed, the failure was swallowed and the run succeeded
C9_Witness ==
    /\ pc = "done"
    /\ ~Truthy(args.save_pdf)
    /\ unlinkAttempts = 1
    /\ files[TmpPath] = "pdf"
    /\ exit_code = 0

\* C10: no normalized record has a missing start or end time: each one is
\* a row of the store in which both timestamps are present and parseable,
\* and there are no more records than such rows.
C10_NoNullTimestamps ==
    Succeeded(3) =>
        /\ \A i \in 1..Len(job_data) :
             /\ job_data[i].startTime # NaT
             /\ job_data[i].endTime # NaT
             /\ \E k \in 1..Len(table) :
                  /\ table[k].START_TIME.kind = "datetime"
                  /\ table[k].END_TIME.kind = "datetime"
                  /\ table[k].START_TIME.ts = job_data[i].startTime
                  /\ table[k].END_TIME.ts = job_data[i].endTime
        /\ Len(job_data) <= Cardinality({k \in 1..Len(table) :
                                           /\ table[k].START_TIME.kind = "datetime"
                                           /\ table[k].END_TIME.kind = "datetime"})

\* a row inside the range with an unparseable end time was dropped while
\* another row was kept
C10_Witness ==
    /\ Succeeded(3)
    /\ Len(job_data) = 1
    /\ Len(df) = 2
    /\ \E i \in 1..Len(df) :
         /\ ~df[i].JOB_NAME.isnull
         /\ df[i].START_TIME = DatetimeCell(TS(2025, 5, 1, 0))
         /\ df[i].END_TIME = TextCell
====
